---- MODULE Spec2Model ----
(***************************************************************************)
(* Adler32 Redux (aybern-adler.c): the three hash drivers                  *)
(*   AYBern_adlerHash32, AYBern_adlerHash64,                               *)
(*   AYBern_adlerHashCipherXorshift128_64                                  *)
(* and the primitives they use (rotl16, rotl64, Xoroshiro128Plus_next,     *)
(* SplitMix_next).                                                         *)
(*                                                                         *)
(* Fixed-width unsigned integers of the C code are little-endian tuples of *)
(* bytes (uint32_t: 4 bytes, uint64_t: 8 bytes), because the integers of   *)
(* the model checker are narrower than 2^32; every operation below wraps   *)
(* modulo 2^(8*width) exactly as the C operation on the unsigned type      *)
(* does.  uint16_t values and loop indices that stay below 2^31 are plain  *)
(* integers.                                                               *)
(***************************************************************************)
EXTENDS Integers, Sequences, FiniteSets, TLC

(***************************************************************************)
(* Bitwise operations on non-negative integers below 2^31.                 *)
(***************************************************************************)
RECURSIVE BitXor(_, _)
BitXor(x, y) ==
  IF x = 0 THEN y
  ELSE IF y = 0 THEN x
  ELSE ((x + y) % 2) + 2 * BitXor(x \div 2, y \div 2)

RECURSIVE BitOr(_, _)
BitOr(x, y) ==
  IF x = 0 THEN y
  ELSE IF y = 0 THEN x
  ELSE (IF (x % 2) + (y % 2) > 0 THEN 1 ELSE 0) + 2 * BitOr(x \div 2, y \div 2)

RECURSIVE BitAnd(_, _)
BitAnd(x, y) ==
  IF x = 0 \/ y = 0 THEN 0
  ELSE (IF (x % 2) + (y % 2) = 2 THEN 1 ELSE 0) + 2 * BitAnd(x \div 2, y \div 2)

(***************************************************************************)
(* Unsigned words: little-endian byte tuples.                              *)
(***************************************************************************)
\* A function on 1..n as the tuple of its values.  (The model checker keeps
\* [i \in 1..n |-> e] unevaluated and evaluates e again at every use; the
\* concatenation makes it a tuple of numbers once.)
Tup(f) == f \o <<>>

\* The value x (0 <= x < 2^31) as an unsigned word of w bytes.
FromNat(x, w) ==
  Tup([i \in 1..w |-> IF i <= 4 THEN (x \div (2 ^ (8 * (i - 1)))) % 256 ELSE 0])

\* The integer a word holds; used only where the value is below 2^31.
RECURSIVE ToNatFrom(_, _)
ToNatFrom(a, i) ==
  IF i > Len(a) THEN 0 ELSE a[i] + 256 * ToNatFrom(a, i + 1)

ToNat(a) == ToNatFrom(a, 1)

\* Whether a word's value is below 2^31 (so that ToNat applies).
FitsNat(a) ==
  /\ \A i \in 1..Len(a) : i > 4 => a[i] = 0
  /\ (Len(a) >= 4 => a[4] < 128)

\* A uint64_t written as its hexadecimal digits, most significant byte first.
U64(b7, b6, b5, b4, b3, b2, b1, b0) == <<b0, b1, b2, b3, b4, b5, b6, b7>>

\* A uint32_t written most significant byte first.
U32(b3, b2, b1, b0) == <<b0, b1, b2, b3>>

\* (uint64_t)x for a narrower unsigned x: zero extension.
ZExt(a, w) == Tup([i \in 1..w |-> IF i <= Len(a) THEN a[i] ELSE 0])

\* (uint32_t)x for a wider unsigned x: truncation.
Trunc(a, w) == Tup([i \in 1..w |-> a[i]])

ByteAt(a, i) == IF i >= 1 /\ i <= Len(a) THEN a[i] ELSE 0

XorW(a, b) == Tup([i \in 1..Len(a) |-> BitXor(a[i], b[i])])

OrW(a, b) == Tup([i \in 1..Len(a) |-> BitOr(a[i], b[i])])

AndW(a, b) == Tup([i \in 1..Len(a) |-> BitAnd(a[i], b[i])])

\* ~a
NotW(a) == Tup([i \in 1..Len(a) |-> 255 - a[i]])

\* a >> k, 0 <= k < 8 * Len(a)
ShrW(a, k) ==
  LET q == k \div 8
      r == k % 8
  IN Tup([i \in 1..Len(a) |->
            (ByteAt(a, i + q) \div (2 ^ r))
            + (ByteAt(a, i + q + 1) % (2 ^ r)) * (2 ^ (8 - r))])

\* a << k, 0 <= k < 8 * Len(a)
ShlW(a, k) ==
  LET q == k \div 8
      r == k % 8
  IN Tup([i \in 1..Len(a) |->
            ((ByteAt(a, i - q) * (2 ^ r)) % 256)
            + (ByteAt(a, i - q - 1) \div (2 ^ (8 - r)))])

RECURSIVE AddCarry(_, _, _, _)
AddCarry(a, b, i, c) ==
  IF i > Len(a) THEN <<>>
  ELSE LET t == a[i] + b[i] + c
       IN <<t % 256>> \o AddCarry(a, b, i + 1, t \div 256)

\* a + b modulo 2^(8*Len(a))
AddW(a, b) == AddCarry(a, b, 1, 0)

RECURSIVE SubBorrow(_, _, _, _)
SubBorrow(a, b, i, c) ==
  IF i > Len(a) THEN <<>>
  ELSE LET t == a[i] - b[i] - c
       IN IF t < 0 THEN <<t + 256>> \o SubBorrow(a, b, i + 1, 1)
          ELSE <<t>> \o SubBorrow(a, b, i + 1, 0)

\* a - b modulo 2^(8*Len(a))
SubW(a, b) == SubBorrow(a, b, 1, 0)

RECURSIVE MulColumn(_, _, _, _)
MulColumn(a, b, i, p) ==
  IF p > i THEN 0 ELSE a[p] * b[i + 1 - p] + MulColumn(a, b, i, p + 1)

RECURSIVE MulCarry(_, _, _, _)
MulCarry(a, b, i, c) ==
  IF i > Len(a) THEN <<>>
  ELSE LET t == MulColumn(a, b, i, 1) + c
       IN <<t % 256>> \o MulCarry(a, b, i + 1, t \div 256)

\* a * b modulo 2^(8*Len(a))
MulW(a, b) == MulCarry(a, b, 1, 0)

RECURSIVE GeFrom(_, _, _)
GeFrom(a, b, i) ==
  IF i = 0 THEN TRUE
  ELSE IF a[i] > b[i] THEN TRUE
  ELSE IF a[i] < b[i] THEN FALSE
  ELSE GeFrom(a, b, i - 1)

\* a >= b
GeW(a, b) == GeFrom(a, b, Len(a))

\* a < b
LtW(a, b) == ~GeW(a, b)

\* Bit i (0 = least significant) of a word.
BitOf(a, i) == (a[(i \div 8) + 1] \div (2 ^ (i % 8))) % 2

\* The word with only bit i set.
OneBit(w, i) ==
  Tup([p \in 1..w |-> IF p = (i \div 8) + 1 THEN 2 ^ (i % 8) ELSE 0])

\* Index of the highest set bit of a word, -1 for zero.
RECURSIVE TopByteFrom(_, _)
TopByteFrom(a, p) ==
  IF p = 0 THEN 0 ELSE IF a[p] # 0 THEN p ELSE TopByteFrom(a, p - 1)

RECURSIVE TopBitOfByte(_)
TopBitOfByte(b) == IF b <= 1 THEN 0 ELSE 1 + TopBitOfByte(b \div 2)

TopBit(a) ==
  LET p == TopByteFrom(a, Len(a))
  IN IF p = 0 THEN -1 ELSE 8 * (p - 1) + TopBitOfByte(a[p])

\* Binary long division, quotient bits i, i-1, ..., 0: qr = <<q, r>>.
RECURSIVE DivBits(_, _, _, _)
DivBits(a, d, i, qr) ==
  IF i < 0 THEN qr
  ELSE LET r1 == AddW(ShlW(qr[2], 1), FromNat(BitOf(a, i), Len(a)))
       IN IF GeW(r1, d)
          THEN DivBits(a, d, i - 1,
                       <<OrW(qr[1], OneBit(Len(a), i)), SubW(r1, d)>>)
          ELSE DivBits(a, d, i - 1, <<qr[1], r1>>)

\* Long division by a divisor below 2^23, one byte of the dividend at a
\* time from the most significant byte p down: the quotient's bytes 1..p.
RECURSIVE DivShort(_, _, _, _)
DivShort(a, d, p, r) ==
  IF p = 0 THEN <<>>
  ELSE LET t == r * 256 + a[p]
       IN DivShort(a, d, p - 1, t % d) \o <<t \div d>>

\* Unsigned division a / d of the C code (d # 0).  A divisor below 2^23 is
\* divided by a byte at a time; otherwise the quotient has at most
\* TopBit(a) - TopBit(d) + 1 bits, which binary long division produces from
\* the remainder a >> (that many bits).
DivW(a, d) ==
  IF TopBit(d) < 23 THEN DivShort(a, ToNat(d), Len(a), 0)
  ELSE LET nb == TopBit(a) - TopBit(d) + 1
       IN IF nb <= 0 THEN FromNat(0, Len(a))
          ELSE DivBits(a, d, nb - 1, <<FromNat(0, Len(a)), ShrW(a, nb)>>)[1]

(***************************************************************************)
(* Rotate primitives and the two generators.                               *)
(***************************************************************************)
\* rotl64(x, k): (x << k) | (x >> (64 - k)) on uint64_t
rotl64(x, k) == OrW(ShlW(x, k), ShrW(x, 64 - k))

\* rotl16 with the rotation to the right (a mutation of rotl16).
rotr16(x, k) == BitOr(x \div (2 ^ k), (x % (2 ^ k)) * (2 ^ (16 - k))) % 65536

\* rotl16(x, k): x is promoted to int, so x << k keeps its high bits and
\* x >> (16 - k) is 0 for k = 0; the int result is converted to uint16_t.
rotl16(x, k) == BitOr(x * (2 ^ k), x \div (2 ^ (16 - k))) % 65536

\* Xoroshiro128Plus_next(s): the value returned and the state s as the call
\* leaves it (the function writes s[0] and s[1] through its pointer).
Xoroshiro128Plus_next(s) ==
  LET s0 == s[1]
      s1 == XorW(s[2], s0)
  IN [result |-> AddW(s0, s[2]),
      s |-> <<XorW(XorW(rotl64(s0, 55), s1), ShlW(s1, 14)), rotl64(s1, 36)>>]

SplitMixGamma == U64(\H9E, \H37, \H79, \HB9, \H7F, \H4A, \H7C, \H15)

SplitMixMul1 == U64(\HBF, \H58, \H47, \H6D, \H1C, \HE4, \HE5, \HB9)

SplitMixMul2 == U64(\H94, \HD0, \H49, \HBB, \H13, \H31, \H11, \HEB)

\* SplitMix_next(x)
SplitMix_next(x) ==
  LET z0 == AddW(x, SplitMixGamma)
      z1 == MulW(XorW(z0, ShrW(z0, 30)), SplitMixMul1)
      z2 == MulW(XorW(z1, ShrW(z1, 27)), SplitMixMul2)
  IN XorW(z2, ShrW(z2, 31))

(***************************************************************************)
(* Values that are not followed.  Uninit is the indeterminate value of a   *)
(* local variable that has not been assigned.  Opaque is a value computed  *)
(* from message contents that are not followed (see OpaqueArray).          *)
(***************************************************************************)
Uninit == <<>>

Opaque == <<-1>>

Zero32 == FromNat(0, 4)

One32 == FromNat(1, 4)

Zero64 == FromNat(0, 8)

One64 == FromNat(1, 8)

(***************************************************************************)
(* The caller's memory.  An array of bytes is its size, the byte it was    *)
(* filled with, and the bytes written over that (offset + 1 |-> byte): the *)
(* 16-byte test messages of main are written over completely, the 1 MiB    *)
(* buffer of main is memset to 1 and then changed at single bytes.  The    *)
(* drivers read an array through a const uint16_t * or a const uint32_t *  *)
(* (main passes the members of a union, or a cast of the byte pointer), in *)
(* the byte order of the reference platform, little-endian.                *)
(*                                                                         *)
(* OpaqueArray is a message whose contents are not followed; it holds as   *)
(* many elements as the call is given.  It carries the messages of several *)
(* 2^17-element blocks: of such a call the block structure (n_blocks, len, *)
(* lcg_a, j, k, the indices read, the number of generator calls) is        *)
(* followed and the sums, codes and generator state are Opaque.            *)
(***************************************************************************)
Array(bytes) == [known |-> TRUE, size |-> Len(bytes), fill |-> 0, over |-> bytes]

\* memset(big, b, size)
Filled(size, b) == [known |-> TRUE, size |-> size, fill |-> b, over |-> <<>>]

OpaqueArray == [known |-> FALSE, size |-> 0, fill |-> 0, over |-> <<>>]

\* The byte at offset a (from 0).
ByteOfArray(arr, a) ==
  IF (a + 1) \in DOMAIN arr.over THEN arr.over[a + 1] ELSE arr.fill

\* The array after arr[a] = b.
StoreByte(arr, a, b) ==
  LET at == IF b = arr.fill THEN DOMAIN arr.over \ {a + 1}
            ELSE DOMAIN arr.over \cup {a + 1}
  IN [arr EXCEPT !.over = [x \in at |-> IF x = a + 1 THEN b ELSE arr.over[x]]]

\* What a read of an element outside the array can produce.
Garbage(esz) == {Tup([b \in 1..esz |-> 0]), Tup([b \in 1..esz |-> 255])}

\* The values msg[idx] can produce, msg pointing to elements of esz bytes at
\* the start of arr (idx is a uint32_t): the element, or Garbage outside arr.
LoadElem(arr, esz, idx) ==
  IF FitsNat(idx) /\ ToNat(idx) < arr.size \div esz
  THEN {Tup([b \in 1..esz |-> ByteOfArray(arr, esz * ToNat(idx) + b - 1)])}
  ELSE Garbage(esz)

(***************************************************************************)
(* The three drivers.  A call's automatic variables are a record l, with   *)
(* the names of the source:                                                *)
(*   hash_code, lcg_a, last_lcg_a, adler_sum      words of the driver      *)
(*   k                                            uint32_t word            *)
(*   len, n_blocks, last_block_len, i, j, parity  uint32_t below 2^31,     *)
(*                                                kept as integers         *)
(*   s, un                                        the generator state and  *)
(*                                                the union (cipher)       *)
(* and gen_calls, the number of calls of Xoroshiro128Plus_next so far      *)
(* (a 64-bit count kept for the properties; the code has no such          *)
(* variable).                                                              *)
(***************************************************************************)
H32 == "AYBern_adlerHash32"

H64 == "AYBern_adlerHash64"

C64 == "AYBern_adlerHashCipherXorshift128_64"

\* sizeof *msg
ElemSize(drv) == IF drv = H32 THEN 2 ELSE 4

\* No call is active: every automatic variable is indeterminate.
NoFrame ==
  [hash_code |-> Uninit, len |-> Uninit, n_blocks |-> Uninit,
   last_block_len |-> Uninit, lcg_a |-> Uninit, last_lcg_a |-> Uninit,
   i |-> Uninit, j |-> Uninit, k |-> Uninit, adler_sum |-> Uninit,
   parity |-> Uninit, s |-> Uninit, un |-> Uninit, gen_calls |-> Zero64]

\* const int32_t shift = 19;
shift32 == 19

\* const uint32_t block_len = 1 << (shift >> 1);
block_len32 == 2 ^ (shift32 \div 2)

\* const uint32_t lcg_c = 1013904223;
lcg_c32 == FromNat(1013904223, 4)

\* const int32_t shift = 35;
shift64 == 35

\* const uint32_t block_len = 1 << (shift >> 1);
block_len64 == 2 ^ (shift64 \div 2)

\* const uint64_t lcg_c = UINT64_C(1442695040888963407);  0x14057B7EF767814F
lcg_c64 == U64(\H14, \H05, \H7B, \H7E, \HF7, \H67, \H81, \H4F)

BlockLen(drv) == IF drv = H32 THEN block_len32 ELSE block_len64

\* NBlocks with ++n_blocks done always (a mutation of NBlocks).
NBlocksAlways(n, block_len, last_block_len) ==
  ToNat(DivW(n, FromNat(block_len, 4))) + 1

\* n/block_len, and one more when last_block_len is not 0:
\*   uint32_t n_blocks = n/block_len; ... if (last_block_len) ++n_blocks;
NBlocks(n, block_len, last_block_len) ==
  ToNat(DivW(n, FromNat(block_len, 4))) + (IF last_block_len # 0 THEN 1 ELSE 0)

\* uint32_t last_block_len = n & (block_len-1);
LastBlockLen(n, block_len) == ToNat(AndW(n, FromNat(block_len - 1, 4)))

\* LastLcgA32 with 1 << (shift - 1) (a mutation of LastLcgA32).
LastLcgA32Half(last_block_len) ==
  LET l == FromNat(last_block_len, 4)
      q == DivW(OneBit(4, shift32 - 1), MulW(l, AddW(l, One32)))
      hd_remainder == AndW(SubW(q, One32), FromNat(3, 4))
  IN IF hd_remainder # Zero32 THEN SubW(q, hd_remainder) ELSE q

\* last_lcg_a = (1 << shift)/(last_block_len * (last_block_len + 1));
\* hd_remainder = (last_lcg_a - 1) & 3; if (hd_remainder) last_lcg_a -= hd_remainder;
LastLcgA32(last_block_len) ==
  LET l == FromNat(last_block_len, 4)
      q == DivW(OneBit(4, shift32), MulW(l, AddW(l, One32)))
      hd_remainder == AndW(SubW(q, One32), FromNat(3, 4))
  IN IF hd_remainder # Zero32 THEN SubW(q, hd_remainder) ELSE q

\* LastLcgA64 without the Hull-Dobell adjustment (a mutation of LastLcgA64).
LastLcgA64Raw(last_block_len) ==
  LET l == FromNat(last_block_len, 4)
  IN DivW(OneBit(8, shift64), MulW(ZExt(l, 8), ZExt(AddW(l, One32), 8)))

\* last_lcg_a = (UINT64_C(1) << shift)/((uint64_t)last_block_len * (last_block_len + 1));
\* hd_remainder = (last_lcg_a - 1) & 3; if (hd_remainder) last_lcg_a -= hd_remainder;
\* last_block_len + 1 is computed in uint32_t and then converted.
LastLcgA64(last_block_len) ==
  LET l == FromNat(last_block_len, 4)
      q == DivW(OneBit(8, shift64), MulW(ZExt(l, 8), ZExt(AddW(l, One32), 8)))
      hd_remainder == AndW(SubW(q, One64), FromNat(3, 8))
  IN IF hd_remainder # Zero64 THEN SubW(q, hd_remainder) ELSE q

\* AYBern_adlerHash32 from its first line to the first test of the block
\* loop: the initialised declarations and j=0, k=0.
Hash32Entry(n) ==
  LET last_block_len == LastBlockLen(n, block_len32)
  IN [NoFrame EXCEPT
        !.hash_code = Zero32,
        !.len = block_len32,
        !.n_blocks = NBlocks(n, block_len32, last_block_len),
        !.last_block_len = last_block_len,
        !.lcg_a = One32,
        !.last_lcg_a = IF last_block_len # 0 THEN LastLcgA32(last_block_len)
                       ELSE One32,
        !.j = 0,
        !.k = Zero32]

\* AYBern_adlerHash64 from its first line to the first test of the block loop.
Hash64Entry(n) ==
  LET last_block_len == LastBlockLen(n, block_len64)
  IN [NoFrame EXCEPT
        !.hash_code = Zero64,
        !.len = block_len64,
        !.n_blocks = NBlocks(n, block_len64, last_block_len),
        !.last_block_len = last_block_len,
        !.lcg_a = One64,
        !.last_lcg_a = IF last_block_len # 0 THEN LastLcgA64(last_block_len)
                       ELSE One64,
        !.j = 0,
        !.k = Zero32]

\* TemperIv with the seed applied after the mix (a mutation of TemperIv).
TemperIvSeedLast(iv, seed) ==
  <<XorW(SplitMix_next(iv[1]), seed), SplitMix_next(iv[2])>>

\* TemperIv without the seed (a mutation of TemperIv).
TemperIvNoSeed(iv, seed) == <<SplitMix_next(iv[1]), SplitMix_next(iv[2])>>

\* uint64_t s[2] = { SplitMix_next(iv[0]^seed), SplitMix_next(iv[1]) };
TemperIv(iv, seed) == <<SplitMix_next(XorW(iv[1], seed)), SplitMix_next(iv[2])>>

\* AYBern_adlerHashCipherXorshift128_64 from its first line to the first
\* test of the block loop: as the 64-bit driver, and the tempered copy s of
\* the IV; the union un is declared and not assigned.
CipherEntry(n, iv, seed) ==
  [Hash64Entry(n) EXCEPT !.s = TemperIv(iv, seed)]

\* The IV tempered in place (a mutation of IvAfterEntry).
IvTemperedInPlace(iv, seed) == TemperIv(iv, seed)

\* The caller's iv[0], iv[1] after the cipher driver's first lines: iv points
\* to const, the tempered values are stored in s, iv is left as it was.
IvAfterEntry(iv, seed) == iv

\* j < n_blocks
LoopTest(l) == l.j < l.n_blocks

\* SelectBlock without the test of j (a mutation of SelectBlock).
SelectBlockEvery(l) ==
  IF l.last_block_len # 0
  THEN [l EXCEPT !.len = l.last_block_len, !.lcg_a = l.last_lcg_a]
  ELSE l

\* if (j == (n_blocks - 1)) { if (last_block_len) { len = ...; lcg_a = ...; } }
SelectBlock(l) ==
  IF l.j = l.n_blocks - 1 /\ l.last_block_len # 0
  THEN [l EXCEPT !.len = l.last_block_len, !.lcg_a = l.last_lcg_a]
  ELSE l

\* The block loop's body up to the first test of the inner loop:
\* uint32_t adler_sum = 0; for (i = 0; ...
Begin32(l) == [SelectBlock(l) EXCEPT !.adler_sum = Zero32, !.i = 0]

\* uint64_t adler_sum = 0; for (i = 0; ...
Begin64(l) == [SelectBlock(l) EXCEPT !.adler_sum = Zero64, !.i = 0]

\* uint32_t parity = 1; uint64_t adler_sum = 0; for (i = 0; ...
BeginCipher(l) ==
  [SelectBlock(l) EXCEPT !.parity = 1, !.adler_sum = Zero64, !.i = 0]

\* i <= len (a mutation of InnerTest).
InnerTestInclusive(l) == l.i <= l.len

\* i < len
InnerTest(l) == l.i < l.len

\* i+k, in uint32_t
Index(l) == AddW(FromNat(l.i, 4), l.k)

\* Inner32 with the weight i (a mutation of Inner32).
Inner32ZeroBased(l, e) ==
  [l EXCEPT !.adler_sum = AddW(@, MulW(FromNat(l.i, 4), ZExt(e, 4))),
            !.i = @ + 1]

\* adler_sum += (i+1) * msg[i+k]; ++i      (e is msg[i+k], a uint16_t)
Inner32(l, e) ==
  [l EXCEPT !.adler_sum = AddW(@, MulW(FromNat(l.i + 1, 4), ZExt(e, 4))),
            !.i = @ + 1]

\* Inner64 without the weight i+1 (a mutation of Inner64).
Inner64Unweighted(l, e) ==
  [l EXCEPT !.adler_sum = AddW(@, ZExt(e, 8)), !.i = @ + 1]

\* Inner64 with the weight i (a mutation of Inner64).
Inner64ZeroBased(l, e) ==
  [l EXCEPT !.adler_sum = AddW(@, MulW(FromNat(l.i, 8), ZExt(e, 8))),
            !.i = @ + 1]

\* adler_sum += (uint64_t)(i+1) * (uint64_t)msg[i+k]; ++i
Inner64(l, e) ==
  [l EXCEPT !.adler_sum = AddW(@, MulW(FromNat(l.i + 1, 8), ZExt(e, 8))),
            !.i = @ + 1]

\* un.r32[p] on the little-endian reference platform: r32[0] is the low half.
R32(un, p) == Tup([b \in 1..4 |-> un[4 * p + b]])

\* InnerCipher with the halves of un taken in the other order (a mutation
\* of InnerCipher).
InnerCipherSwapped(l, e) ==
  LET parity == 1 - l.parity
      g == Xoroshiro128Plus_next(l.s)
      un == IF parity = 0 THEN g.result ELSE l.un
      masked == XorW(e, R32(un, 1 - parity))
  IN [l EXCEPT !.parity = parity,
               !.s = IF parity = 0 THEN g.s ELSE @,
               !.un = un,
               !.gen_calls = IF parity = 0 THEN AddW(@, One64) ELSE @,
               !.adler_sum = AddW(@, MulW(FromNat(l.i + 1, 8), ZExt(masked, 8))),
               !.i = @ + 1]

\* parity = 1 - parity;
\* if (parity == 0) un.r64 = Xoroshiro128Plus_next(s);
\* adler_sum += (uint64_t)(i+1) * (uint64_t)(msg[i+k] ^ un.r32[parity]); ++i
InnerCipher(l, e) ==
  LET parity == 1 - l.parity
      g == Xoroshiro128Plus_next(l.s)
      un == IF parity = 0 THEN g.result ELSE l.un
      masked == XorW(e, R32(un, parity))
  IN [l EXCEPT !.parity = parity,
               !.s = IF parity = 0 THEN g.s ELSE @,
               !.un = un,
               !.gen_calls = IF parity = 0 THEN AddW(@, One64) ELSE @,
               !.adler_sum = AddW(@, MulW(FromNat(l.i + 1, 8), ZExt(masked, 8))),
               !.i = @ + 1]

\* The inner loop from i to its end over contents that are not followed:
\* len - i iterations; the cipher driver calls the generator in every
\* iteration that makes parity 0.
InnerRest(drv, l) ==
  LET cnt == l.len - l.i
  IN IF drv = C64
     THEN [l EXCEPT !.i = l.len, !.adler_sum = Opaque, !.s = Opaque,
                    !.un = Opaque,
                    !.parity = IF cnt % 2 = 0 THEN @ ELSE 1 - @,
                    !.gen_calls = AddW(@, FromNat((cnt + l.parity) \div 2, 8))]
     ELSE [l EXCEPT !.i = l.len, !.adler_sum = Opaque]

\* lcg = lcg_c; if (lcg_a == 1) lcg += adler_sum; else lcg += adler_sum * lcg_a;
Lcg32(adler_sum, lcg_a) ==
  IF lcg_a = One32 THEN AddW(lcg_c32, adler_sum)
  ELSE AddW(lcg_c32, MulW(adler_sum, lcg_a))

\* Fold32 without the complement on odd j (a mutation of Fold32).
Fold32Plain(hash_code, lcg, j) == XorW(hash_code, lcg)

\* hash_code ^= (j & 1) ? ~lcg : lcg;
Fold32(hash_code, lcg, j) ==
  XorW(hash_code, IF BitAnd(j, 1) # 0 THEN NotW(lcg) ELSE lcg)

\* Mix32 with the second rotation's amount taken from the half the first
\* rotation has already changed (a mutation of Mix32).
Mix32Chained(hash_code, j) ==
  LET g == XorW(hash_code, ShrW(hash_code, 1))
      lo == g[1] + 256 * g[2]
      hi == g[3] + 256 * g[4]
      hi_shift == BitAnd(lo + (65535 - (j % 65536)), 15)
      hi2 == rotl16(hi, hi_shift)
      lo_shift == BitAnd(hi2 + (j % 65536), 15)
      lo2 == rotl16(lo, lo_shift)
  IN OrW(FromNat(lo2, 4), ShlW(FromNat(hi2, 4), 16))

\* The mixer: Gray transform, then the two data dependent rotations.
\* (uint16_t)j is j % 2^16 and (uint16_t)~j is 65535 - j % 2^16.  In
\* (uint32_t)(hi << 16) the shift is done in int; gcc and clang give the
\* wrapped value also when hi >= 2^15.
Mix32(hash_code, j) ==
  LET g == XorW(hash_code, ShrW(hash_code, 1))
      lo == g[1] + 256 * g[2]
      hi == g[3] + 256 * g[4]
      lo_shift == BitAnd(hi + (j % 65536), 15)
      hi_shift == BitAnd(lo + (65535 - (j % 65536)), 15)
      hi2 == rotl16(hi, hi_shift)
      lo2 == rotl16(lo, lo_shift)
  IN OrW(FromNat(lo2, 4), ShlW(FromNat(hi2, 4), 16))

\* Lcg64 without the coefficient (a mutation of Lcg64).
Lcg64Plain(adler_sum, lcg_a) == AddW(lcg_c64, adler_sum)

\* lcg = lcg_c; if (lcg_a == UINT64_C(1)) lcg += adler_sum; else lcg += adler_sum * lcg_a;
Lcg64(adler_sum, lcg_a) ==
  IF lcg_a = One64 THEN AddW(lcg_c64, adler_sum)
  ELSE AddW(lcg_c64, MulW(adler_sum, lcg_a))

\* hash_code ^= lcg; hash_code = SplitMix_next(hash_code + (uint64_t)j);
FoldMix64(hash_code, lcg, j) ==
  SplitMix_next(AddW(XorW(hash_code, lcg), FromNat(j, 8)))

\* The block loop's body after the inner loop, and ++j, k+=block_len.
End32(l) ==
  [l EXCEPT !.hash_code =
              IF l.adler_sum = Opaque THEN Opaque
              ELSE Mix32(Fold32(@, Lcg32(l.adler_sum, l.lcg_a), l.j), l.j),
            !.j = @ + 1,
            !.k = AddW(@, FromNat(block_len32, 4))]

\* The same of the 64-bit driver and of the cipher driver.
End64(l) ==
  [l EXCEPT !.hash_code =
              IF l.adler_sum = Opaque THEN Opaque
              ELSE FoldMix64(@, Lcg64(l.adler_sum, l.lcg_a), l.j),
            !.j = @ + 1,
            !.k = AddW(@, FromNat(block_len64, 4))]

\* The steps of the driver drv.
Prologue(drv, n, iv, seed) ==
  CASE drv = H32 -> Hash32Entry(n)
    [] drv = H64 -> Hash64Entry(n)
    [] drv = C64 -> CipherEntry(n, iv, seed)

BlockBegin(drv, l) ==
  CASE drv = H32 -> Begin32(l)
    [] drv = H64 -> Begin64(l)
    [] drv = C64 -> BeginCipher(l)

InnerBody(drv, l, e) ==
  CASE drv = H32 -> Inner32(l, e)
    [] drv = H64 -> Inner64(l, e)
    [] drv = C64 -> InnerCipher(l, e)

BlockEnd(drv, l) == IF drv = H32 THEN End32(l) ELSE End64(l)

(***************************************************************************)
(* A whole call, run alone on a message and an IV that nothing changes     *)
(* meanwhile: the same steps, one after the other.                         *)
(***************************************************************************)
RECURSIVE InnerLoop(_, _, _)
InnerLoop(drv, arr, l) ==
  IF InnerTest(l)
  THEN InnerLoop(drv, arr,
         InnerBody(drv, l,
           CHOOSE e \in LoadElem(arr, ElemSize(drv), Index(l)) : TRUE))
  ELSE l

RECURSIVE BlockLoop(_, _, _)
BlockLoop(drv, arr, l) ==
  IF LoopTest(l)
  THEN BlockLoop(drv, arr, BlockEnd(drv, InnerLoop(drv, arr, BlockBegin(drv, l))))
  ELSE l

\* return hash_code;
RunAlone(drv, arr, n, iv, seed) ==
  BlockLoop(drv, arr, Prologue(drv, n, iv, seed)).hash_code

\* uint32_t AYBern_adlerHash32(const uint16_t * msg, uint32_t n)
AYBern_adlerHash32(msg, n) == RunAlone(H32, msg, n, Uninit, Zero64)

\* uint64_t AYBern_adlerHash64(const uint32_t * msg, uint32_t n)
AYBern_adlerHash64(msg, n) == RunAlone(H64, msg, n, Uninit, Zero64)

\* uint64_t AYBern_adlerHashCipherXorshift128_64(const uint32_t * msg,
\*   uint32_t n, const uint64_t iv[2], uint64_t seed)
AYBern_adlerHashCipherXorshift128_64(msg, n, iv, seed) ==
  RunAlone(C64, msg, n, iv, seed)

(***************************************************************************)
(* The state.                                                              *)
(*   mem    the caller's memory: the named byte arrays the calls are given *)
(*          as messages, and the named IV arrays (two uint64_t each)       *)
(*   th     the threads of the caller; each is outside a call ("idle"),    *)
(*          about to run a driver's first lines ("entry"), at the test of  *)
(*          the block loop ("loop"), at the test of the inner loop         *)
(*          ("inner"), or back in the caller with the value returned       *)
(*          ("done").  A thread holds the arguments of its call, the       *)
(*          call's automatic variables l, and what the call has done so    *)
(*          far: reads, the indices i+k read, in order, as runs            *)
(*          <<first, end>> of consecutive indices first .. end-1 (5-byte   *)
(*          words); wrapped, whether some i+k exceeded 2^32 - 1; iters,    *)
(*          the number of block iterations begun                           *)
(*   kept   at most one earlier call remembered by the caller: its         *)
(*          arguments, the contents of its message and IV, and its result  *)
(***************************************************************************)
VARIABLES mem, th, kept

vars == <<mem, th, kept>>

IdleThread ==
  [pc |-> "idle", drv |-> "", msg |-> "", n |-> Zero32, iv |-> "",
   seed |-> Zero64, l |-> NoFrame, ret |-> Uninit,
   reads |-> <<>>, wrapped |-> FALSE, iters |-> 0]

\* A thread whose call with the arguments c is about to start.
Called(c) ==
  [IdleThread EXCEPT !.pc = "entry", !.drv = c.drv, !.msg = c.msg, !.n = c.n,
                     !.iv = c.iv, !.seed = c.seed]

\* The IV a call is given; the 32-bit and 64-bit drivers have none.
IvOf(m, t) == IF t.drv = C64 THEN m[t.iv] ELSE Uninit

Pow32 == <<0, 0, 0, 0, 1>>

\* reads after cnt more reads at idx, idx+1, ... in uint32_t (cnt >= 1).
NoteRun(reads, first, end) ==
  IF Len(reads) > 0 /\ reads[Len(reads)][2] = first
  THEN [reads EXCEPT ![Len(reads)][2] = end]
  ELSE Append(reads, <<first, end>>)

NoteReads(reads, idx, cnt) ==
  LET first == ZExt(idx, 5)
      end == AddW(first, FromNat(cnt, 5))
  IN IF GeW(Pow32, end) THEN NoteRun(reads, first, end)
     ELSE NoteRun(NoteRun(reads, first, Pow32), FromNat(0, 5), SubW(end, Pow32))

\* Whether i + k exceeds 2^32 - 1.
Carries(i, k) == AddW(FromNat(i, 5), ZExt(k, 5))[5] # 0

(***************************************************************************)
(* The steps of a call.                                                    *)
(***************************************************************************)
\* The caller's IV array given to the generator (a mutation of GenArg).
GenArgIv(t) == t.iv

\* The argument of Xoroshiro128Plus_next in the cipher driver's inner loop:
\* the driver's own array s ("s"); a name of mem would be the caller's array.
GenArg(t) == "s"

\* The first lines of the driver, to the first test of the block loop.
Entry ==
  \E p \in DOMAIN th :
    /\ th[p].pc = "entry"
    /\ LET t == th[p]
       IN /\ th' = [th EXCEPT ![p].pc = "loop",
                              ![p].l = Prologue(t.drv, t.n, IvOf(mem, t), t.seed)]
          /\ mem' = IF t.drv = C64
                    THEN [mem EXCEPT ![t.iv] = IvAfterEntry(@, t.seed)]
                    ELSE mem
    /\ UNCHANGED kept

\* The block loop's test holds: the block is selected, the inner loop starts.
Block ==
  \E p \in DOMAIN th :
    /\ th[p].pc = "loop"
    /\ LoopTest(th[p].l)
    /\ th' = [th EXCEPT ![p].pc = "inner",
                        ![p].l = BlockBegin(th[p].drv, @),
                        ![p].iters = @ + 1]
    /\ UNCHANGED <<mem, kept>>

\* One iteration of the inner loop: msg[i+k] is read and added.  In the
\* cipher driver Xoroshiro128Plus_next reads and writes the array it is
\* given (GenArg).
Inner ==
  \E p \in DOMAIN th :
    /\ th[p].pc = "inner"
    /\ InnerTest(th[p].l)
    /\ mem[th[p].msg].known
    /\ LET t == th[p]
           own == t.drv # C64 \/ GenArg(t) = "s"
           l0 == IF own THEN t.l ELSE [t.l EXCEPT !.s = mem[GenArg(t)]]
       IN \E e \in LoadElem(mem[t.msg], ElemSize(t.drv), Index(t.l)) :
            LET l1 == InnerBody(t.drv, l0, e)
            IN /\ th' = [th EXCEPT ![p].l = IF own THEN l1 ELSE [l1 EXCEPT !.s = t.l.s],
                                   ![p].reads = NoteReads(@, Index(t.l), 1),
                                   ![p].wrapped = @ \/ Carries(t.l.i, t.l.k)]
               /\ mem' = IF own THEN mem ELSE [mem EXCEPT ![GenArg(t)] = l1.s]
    /\ UNCHANGED kept

\* The rest of the inner loop over a message whose contents are not
\* followed: msg[i+k] is read for every i from the current one to len - 1.
InnerSkip ==
  \E p \in DOMAIN th :
    /\ th[p].pc = "inner"
    /\ InnerTest(th[p].l)
    /\ ~mem[th[p].msg].known
    /\ LET t == th[p]
       IN th' = [th EXCEPT ![p].l = InnerRest(t.drv, @),
                           ![p].reads = NoteReads(@, Index(t.l), t.l.len - t.l.i),
                           ![p].wrapped = @ \/ Carries(t.l.len - 1, t.l.k)]
    /\ UNCHANGED <<mem, kept>>

\* The inner loop's test fails: lcg, block chain, mix, ++j, k+=block_len.
Fold ==
  \E p \in DOMAIN th :
    /\ th[p].pc = "inner"
    /\ ~InnerTest(th[p].l)
    /\ th' = [th EXCEPT ![p].pc = "loop", ![p].l = BlockEnd(th[p].drv, @)]
    /\ UNCHANGED <<mem, kept>>

\* The block loop's test fails: return hash_code;
Return ==
  \E p \in DOMAIN th :
    /\ th[p].pc = "loop"
    /\ ~LoopTest(th[p].l)
    /\ th' = [th EXCEPT ![p].pc = "done", ![p].ret = th[p].l.hash_code]
    /\ UNCHANGED <<mem, kept>>

(***************************************************************************)
(* The callers.  main hashes the three 16-byte test messages (un1, un2,    *)
(* un3) with every driver, and a 1 MiB buffer (big) that it changes at its *)
(* first and at its last byte between the calls.  The callers below make   *)
(* such calls in any order and any number, also with shorter lengths, a    *)
(* second IV and, in the last two, from two threads at once or on a        *)
(* message whose elements the caller exchanges between the calls.          *)
(***************************************************************************)
\* uint8_t s1[16], s2[16] (lowest bit of the first byte set), s3[16]
\* (lowest bit of the last byte set)
S1 ==
  <<\H00, \H10, \H20, \H30, \H40, \H50, \H60, \H70,
    \H80, \H90, \HA0, \HB0, \HC0, \HD0, \HE0, \HF0>>

S2 == [S1 EXCEPT ![1] = \H01]

S3 == [S1 EXCEPT ![16] = \HF1]

\* const uint64_t iv[2] = { 972546410955, 972507515111 };
\*   0x000000E2704889CB, 0x000000E26DF708E7
MainIv ==
  <<U64(\H00, \H00, \H00, \HE2, \H70, \H48, \H89, \HCB),
    U64(\H00, \H00, \H00, \HE2, \H6D, \HF7, \H08, \HE7)>>

\* #define N (1 << 20)
BigSize == 2 ^ 20

Drivers == {H32, H64, C64}

TestArrays == {"un1", "un2", "un3"}

MsgNames(m) == DOMAIN m \cap (TestArrays \cup {"big", "msg", "txt"})

IvNames(m) == DOMAIN m \cap {"iv", "iv0", "iv1", "iv2", "ivw"}

Seeds == {Zero64, One64}

\* The lengths n a caller passes with the array arr called name to drv:
\* a test message is hashed whole (as main does), up to its last element
\* but one, up to its first element, and with n = 0; the 1 MiB buffer is
\* hashed by the 32-bit driver with n = 512 and n = 1024 (as main does); the
\* message of the exchanging caller is hashed whole by the 64-bit driver,
\* that of the rewriting caller by the 32-bit and by the 64-bit driver.
Lens(name, arr, drv) ==
  LET cap == arr.size \div ElemSize(drv)
  IN IF name \in TestArrays THEN {0, 1, cap - 1, cap}
     ELSE IF name = "big"
          THEN (IF drv = H32 THEN {block_len32, 2 * block_len32} ELSE {})
          ELSE IF name = "txt"
               THEN (IF drv \in {H32, H64} THEN {cap} ELSE {})
               ELSE (IF drv = H64 THEN {cap} ELSE {})

IvSeeds(m, drv) ==
  IF drv = C64 THEN IvNames(m) \X Seeds ELSE {<<"", Zero64>>}

Calls(m) ==
  UNION {{[drv |-> da[1], msg |-> da[2], n |-> FromNat(n, 4),
           iv |-> is[1], seed |-> is[2]] :
             n \in Lens(da[2], m[da[2]], da[1]), is \in IvSeeds(m, da[1])} :
         da \in Drivers \X MsgNames(m)}

\* A thread of the caller calls a driver.
Call ==
  \E p \in DOMAIN th :
    /\ th[p].pc = "idle"
    /\ \E c \in Calls(mem) : th' = [th EXCEPT ![p] = Called(c)]
    /\ UNCHANGED <<mem, kept>>

\* The caller goes on after a call.
Resume ==
  \E p \in DOMAIN th :
    /\ th[p].pc = "done"
    /\ th' = [th EXCEPT ![p] = IdleThread]
    /\ UNCHANGED <<mem, kept>>

\* What the caller remembers of the call a thread has finished.
Remembered(m, t) ==
  [drv |-> t.drv, msg |-> t.msg, n |-> t.n, iv |-> t.iv, seed |-> t.seed,
   arr |-> m[t.msg], ivv |-> IvOf(m, t), ret |-> t.ret]

\* The caller goes on after a call and remembers it.
Keep ==
  \E p \in DOMAIN th :
    /\ th[p].pc = "done"
    /\ kept = <<>>
    /\ kept' = <<Remembered(mem, th[p])>>
    /\ th' = [th EXCEPT ![p] = IdleThread]
    /\ UNCHANGED mem

AllIdle == \A p \in DOMAIN th : th[p].pc = "idle"

\* big[0] = 0; big[N-1] = 0; and big[0] = 1; big[N-1] = 1; of main: between
\* calls the caller changes the lowest bit of the first or of the last byte.
Poke ==
  /\ "big" \in DOMAIN mem
  /\ AllIdle
  /\ \E a \in {0, mem.big.size - 1} :
       mem' = [mem EXCEPT !.big = StoreByte(@, a, 1 - ByteOfArray(@, a))]
  /\ UNCHANGED <<th, kept>>

\* The array with its 4-byte elements p and q exchanged.
Exchanged(arr, p, q) ==
  [arr EXCEPT !.over =
     [x \in DOMAIN arr.over |->
        LET e == (x - 1) \div 4
            b == (x - 1) % 4
        IN IF e = p THEN arr.over[4 * q + b + 1]
           ELSE IF e = q THEN arr.over[4 * p + b + 1]
           ELSE arr.over[x]]]

\* Between calls the caller exchanges two elements of msg that differ.
Exchange ==
  /\ "msg" \in DOMAIN mem
  /\ AllIdle
  /\ \E p, q \in 0..(mem.msg.size \div 4 - 1) :
       /\ p < q
       /\ Exchanged(mem.msg, p, q) # mem.msg
       /\ mem' = [mem EXCEPT !.msg = Exchanged(@, p, q)]
  /\ UNCHANGED <<th, kept>>

\* The 16-bit element values of the rewriting caller's short messages.
ShortVals(x) == IF x % 2 = 1 THEN {0, 1, 2} ELSE {0, 1}

\* The short messages: four 16-bit elements (two 32-bit elements).
ShortTexts ==
  {Array(<<e[1], 0, e[2], 0, e[3], 0, e[4], 0>>) :
     e \in {f \in [1..4 -> {0, 1, 2}] : \A x \in 1..4 : f[x] \in ShortVals(x)}}

\* A message of 513 16-bit elements, zero but for the bytes given in over:
\* one full block of the 32-bit driver and a short block of one element.
LongText(over) == [known |-> TRUE, size |-> 2 * block_len32 + 2, fill |-> 0, over |-> over]

\* The long messages.  In the first the elements are msg[0] = 2 and
\* msg[512] = 5; in the second msg[1] = 1 and msg[512] = 5; in the third
\* msg[0] = 2 and msg[512] = 6; in the fourth msg[266] = 1, msg[362] =
\* 0xC1EF, msg[363..511] = 0xFFFF and msg[512] = 5.
LongTexts ==
  {LongText([x \in {1, 1025} |-> IF x = 1 THEN 2 ELSE 5]),
   LongText([x \in {3, 1025} |-> IF x = 3 THEN 1 ELSE 5]),
   LongText([x \in {1, 1025} |-> IF x = 1 THEN 2 ELSE 6]),
   LongText([x \in {533} \cup (725..1025) |->
               IF x = 533 THEN 1
               ELSE IF x = 725 THEN \HEF
               ELSE IF x = 726 THEN \HC1
               ELSE IF x = 1025 THEN 5
               ELSE \HFF])}

\* A message of 512 16-bit elements, one full block of the 32-bit driver:
\* msg[one] = 1, msg[402] = mid, msg[403..511] = 0xFFFF, the others 0.
BlockText(one, mid) ==
  [known |-> TRUE, size |-> 2 * block_len32, fill |-> 0,
   over |-> [x \in {2 * one + 1} \cup (805..1024) |->
               IF x = 2 * one + 1 THEN 1
               ELSE IF x = 805 THEN mid % 256
               ELSE IF x = 806 THEN mid \div 256
               ELSE \HFF]]

\* The one-block messages: their weighted sums are 3281194143, 3281259681
\* and 3281193804.
BlockTexts == {BlockText(339, \H5C9F), BlockText(188, \H5D42), BlockText(0, \H5C9F)}

\* The messages the rewriting caller may put in place of arr.
Texts(arr) ==
  {a \in ShortTexts \cup LongTexts \cup BlockTexts : a.size = arr.size /\ a # arr}

\* Between calls the caller writes another message of the same size.
Rewrite ==
  /\ "txt" \in DOMAIN mem
  /\ AllIdle
  /\ \E a \in Texts(mem.txt) : mem' = [mem EXCEPT !.txt = a]
  /\ UNCHANGED <<th, kept>>

(***************************************************************************)
(* Bounds.                                                                 *)
(***************************************************************************)
\* The most full blocks of a message whose contents are not followed
\* (apart from the longest messages, TopLens).
MaxBlocks == 3

\* The most elements of the message of the exchanging caller.
MaxSwapLen == 3

(***************************************************************************)
(* The initial states.                                                     *)
(***************************************************************************)
OneThread == [p \in {1} |-> IdleThread]

\* main's test messages and IV, and an IV of zeros.
InitTest ==
  /\ mem = [un1 |-> Array(S1), un2 |-> Array(S2), un3 |-> Array(S3),
            iv |-> MainIv, iv0 |-> <<Zero64, Zero64>>]
  /\ th = OneThread
  /\ kept = <<>>

\* main's 1 MiB buffer after memset(big,1,N).
InitBig ==
  /\ mem = [big |-> Filled(BigSize, 1), iv |-> MainIv]
  /\ th = OneThread
  /\ kept = <<>>

\* One call of the 64-bit driver or of the cipher driver on the 1 MiB
\* buffer, over one full block and a short block of three elements.
InitLong ==
  /\ mem = [big |-> Filled(BigSize, 1), iv |-> MainIv]
  /\ \E drv \in {H64, C64} :
       th = [p \in {1} |->
               Called([drv |-> drv, msg |-> "big",
                       n |-> FromNat(block_len64 + 3, 4),
                       iv |-> IF drv = C64 THEN "iv" ELSE "",
                       seed |-> Zero64])]
  /\ kept = <<>>

\* The remainders n & (block_len-1) of the messages of InitBlocks.
Rems(block_len) == {0, 1, 2, block_len \div 2, block_len - 1}

\* The longest messages: n = 2^32 - 1, and the largest multiple of
\* block_len, n = 2^32 - block_len.  (The 32-bit driver would take 2^23
\* block iterations for them; they are given to the other two drivers.)
TopLens(drv) ==
  IF drv = H32 THEN {}
  ELSE {U32(\HFF, \HFF, \HFF, \HFF), SubW(Zero32, FromNat(block_len64, 4))}

BlockLens(drv) ==
  {FromNat(q * BlockLen(drv) + r, 4) : q \in 0..MaxBlocks, r \in Rems(BlockLen(drv))}
    \cup TopLens(drv)

\* One call on a message whose contents are not followed.
InitBlocks ==
  /\ mem = [opq |-> OpaqueArray, iv |-> MainIv]
  /\ \E drv \in Drivers : \E n \in BlockLens(drv) :
       th = [p \in {1} |->
               Called([drv |-> drv, msg |-> "opq", n |-> n,
                       iv |-> IF drv = C64 THEN "iv" ELSE "",
                       seed |-> Zero64])]
  /\ kept = <<>>

\* One call for every length up to one block: every short last block, the
\* empty message and the message of one full block.
InitCoef ==
  /\ mem = [opq |-> OpaqueArray, iv |-> MainIv]
  /\ \E drv \in Drivers : \E n \in 0..BlockLen(drv) :
       th = [p \in {1} |->
               Called([drv |-> drv, msg |-> "opq", n |-> FromNat(n, 4),
                       iv |-> IF drv = C64 THEN "iv" ELSE "",
                       seed |-> Zero64])]
  /\ kept = <<>>

\* The element values of the exchanging caller's message.
SwapVals ==
  {U32(\H00, \H00, \H00, \H00), U32(\H00, \H00, \H00, \H01),
   U32(\H80, \H00, \H00, \H00), U32(\HFF, \HFF, \HFF, \HFF)}

RECURSIVE Flatten(_)
Flatten(es) == IF es = <<>> THEN <<>> ELSE Head(es) \o Flatten(Tail(es))

\* A message of 2 to MaxSwapLen elements.
InitSwap ==
  /\ \E k \in 2..MaxSwapLen : \E es \in [1..k -> SwapVals] :
       mem = [msg |-> Array(Flatten(es))]
  /\ th = OneThread
  /\ kept = <<>>

\* main's IV with the lowest bit of iv[0] changed, and with the lowest bit
\* of iv[1] changed.
Iv1 == <<XorW(MainIv[1], One64), MainIv[2]>>

Iv2 == <<MainIv[1], XorW(MainIv[2], One64)>>

\* Two of main's test messages, main's IV and the two changed IVs.
InitKey ==
  /\ mem = [un1 |-> Array(S1), un2 |-> Array(S2),
            iv |-> MainIv, iv1 |-> Iv1, iv2 |-> Iv2]
  /\ th = OneThread
  /\ kept = <<>>

\* An IV of two words 0x61C8864680B583EB = 2^64 - 0x9E3779B97F4A7C15: the
\* word to which SplitMix_next adds its constant to get 0.
WeakIv ==
  <<U64(\H61, \HC8, \H86, \H46, \H80, \HB5, \H83, \HEB),
    U64(\H61, \HC8, \H86, \H46, \H80, \HB5, \H83, \HEB)>>

\* One of main's test messages, main's IV and the IV above.
InitWeak ==
  /\ mem = [un1 |-> Array(S1), iv |-> MainIv, ivw |-> WeakIv]
  /\ th = OneThread
  /\ kept = <<>>

\* The rewriting caller's message.
InitSum ==
  /\ \E a \in ShortTexts \cup LongTexts : mem = [txt |-> a]
  /\ th = OneThread
  /\ kept = <<>>

\* The rewriting caller's message of one block.
InitMix ==
  /\ \E a \in BlockTexts : mem = [txt |-> a]
  /\ th = OneThread
  /\ kept = <<>>

\* Two threads, one test message, one IV.
InitPar ==
  /\ mem = [un1 |-> Array(S1), iv |-> MainIv]
  /\ th = [p \in {1, 2} |-> IdleThread]
  /\ kept = <<>>

(***************************************************************************)
(* The specifications.                                                     *)
(***************************************************************************)
Next ==
  \/ Call \/ Entry \/ Block \/ Inner \/ Fold \/ Return
  \/ Resume \/ Keep

\* The sequential caller on main's test messages.
Spec == InitTest /\ [][Next]_vars

NextBlocks == Entry \/ Block \/ InnerSkip \/ Fold \/ Return

\* Single calls on long messages.
SpecBlocks == InitBlocks /\ [][NextBlocks]_vars

\* Single calls for every short last block.
SpecCoef == InitCoef /\ [][NextBlocks]_vars

NextReads ==
  \/ Call \/ Entry \/ Block \/ Inner \/ InnerSkip \/ Fold \/ Return
  \/ Resume \/ Keep \/ Poke

\* The sequential caller on the test messages or on the 1 MiB buffer, and
\* the single calls on long messages.
SpecReads == (InitTest \/ InitBig \/ InitBlocks) /\ [][NextReads]_vars

\* The sequential caller on the test messages, and the calls over two
\* blocks of the 1 MiB buffer.
SpecLong == (InitTest \/ InitLong) /\ [][Next]_vars

NextSwap ==
  \/ Call \/ Entry \/ Block \/ Inner \/ Fold \/ Return
  \/ Resume \/ Keep \/ Exchange

\* The exchanging caller.
SpecSwap == InitSwap /\ [][NextSwap]_vars

\* The sequential caller with IVs that differ in one bit.
SpecKey == InitKey /\ [][Next]_vars

\* The sequential caller with an IV of its choice.
SpecWeak == InitWeak /\ [][Next]_vars

NextSum ==
  \/ Call \/ Entry \/ Block \/ Inner \/ Fold \/ Return
  \/ Resume \/ Keep \/ Rewrite

\* The rewriting caller.
SpecSum == InitSum /\ [][NextSum]_vars

\* The rewriting caller with messages of one block.
SpecMix == InitMix /\ [][NextSum]_vars

NextPar == Call \/ Entry \/ Block \/ Inner \/ Fold \/ Return \/ Resume

\* Two threads calling concurrently.
SpecPar == InitPar /\ [][NextPar]_vars

(***************************************************************************)
(* The properties.                                                         *)
(***************************************************************************)
\* The threads that are back from a call and hold its result.
Returned == {p \in DOMAIN th : th[p].pc = "done"}

\* Whether thread p's call is drv on a message of the given bytes, with n.
CallIs(p, drv, bytes, n) ==
  /\ th[p].drv = drv
  /\ mem[th[p].msg] = Array(bytes)
  /\ th[p].n = FromNat(n, 4)

\* Whether the remembered call is drv on a message of the given bytes, with n.
KeptIs(drv, bytes, n) ==
  /\ kept # <<>>
  /\ kept[1].drv = drv
  /\ kept[1].arr = Array(bytes)
  /\ kept[1].n = FromNat(n, 4)

\* The test message with the lowest bit of its first byte set.
FirstByteSet == <<\H01>> \o Tail(S1)

----------------------------------------------------------------------------
\* C1: AYBern_adlerHash32 on the test message with n = 8 returns 0x5f02470c;
\* on the test message with first byte 0x01 it returns 0x025feb85; the XOR
\* of the two results is 0x5d5dac89.
C1_Hash32Vector ==
  \A p \in Returned :
    /\ CallIs(p, H32, S1, 8) => th[p].ret = U32(\H5F, \H02, \H47, \H0C)
    /\ CallIs(p, H32, FirstByteSet, 8) =>
         /\ th[p].ret = U32(\H02, \H5F, \HEB, \H85)
         /\ KeptIs(H32, S1, 8) =>
              XorW(kept[1].ret, th[p].ret) = U32(\H5D, \H5D, \HAC, \H89)

\* The call on the changed message has returned and the call on the test
\* message is remembered.
C1_Witness ==
  /\ 1 \in Returned
  /\ CallIs(1, H32, FirstByteSet, 8)
  /\ KeptIs(H32, S1, 8)

----------------------------------------------------------------------------
\* C2: AYBern_adlerHash64 on the test message with n = 4 returns
\* 0xfaa6ad7bd25f234a.
C2_Hash64Vector ==
  \A p \in Returned :
    CallIs(p, H64, S1, 4) =>
      th[p].ret = U64(\HFA, \HA6, \HAD, \H7B, \HD2, \H5F, \H23, \H4A)

\* The call has returned, after one block with a coefficient other than 1.
C2_Witness ==
  /\ 1 \in Returned
  /\ CallIs(1, H64, S1, 4)
  /\ th[1].iters = 1
  /\ th[1].l.lcg_a # One64

----------------------------------------------------------------------------
\* Whether thread p's call is the cipher driver on the test message with
\* n = 4, main's IV and the given seed.
CipherCallIs(p, seed) ==
  /\ CallIs(p, C64, S1, 4)
  /\ mem[th[p].iv] = MainIv
  /\ th[p].seed = seed

\* C3: the cipher driver on the test message with n = 4 and
\* IV = (972546410955, 972507515111) returns 0xca605f1595260c0b for seed 0
\* and 0x029c0948b3964f58 for seed 1; a remembered call that differs only in
\* the seed has a different result.
C3_CipherVector ==
  \A p \in Returned :
    /\ CipherCallIs(p, Zero64) =>
         th[p].ret = U64(\HCA, \H60, \H5F, \H15, \H95, \H26, \H0C, \H0B)
    /\ CipherCallIs(p, One64) =>
         th[p].ret = U64(\H02, \H9C, \H09, \H48, \HB3, \H96, \H4F, \H58)
    /\ (/\ CallIs(p, C64, S1, 4)
        /\ KeptIs(C64, S1, 4)
        /\ kept[1].ivv = mem[th[p].iv]
        /\ kept[1].seed # th[p].seed) => th[p].ret # kept[1].ret

\* The call with seed 1 has returned and the call with seed 0 is remembered.
C3_Witness ==
  /\ 1 \in Returned
  /\ CipherCallIs(1, One64)
  /\ KeptIs(C64, S1, 4)
  /\ kept[1].ivv = MainIv
  /\ kept[1].seed = Zero64

----------------------------------------------------------------------------
\* The value 0 of the driver's result type.
ZeroOf(drv) == IF drv = H32 THEN Zero32 ELSE Zero64

\* C4: a call with n = 0 begins no block iteration and returns 0; in the
\* cipher driver, whatever the IV and the seed, the generator is not called
\* and its state stays the tempered IV.
C4_EmptyMessage ==
  \A p \in DOMAIN th :
    th[p].pc \in {"loop", "inner", "done"} /\ th[p].n = Zero32 =>
      /\ th[p].pc # "inner"
      /\ th[p].iters = 0
      /\ th[p].reads = <<>>
      /\ th[p].l.gen_calls = Zero64
      /\ th[p].drv = C64 => th[p].l.s = TemperIv(mem[th[p].iv], th[p].seed)
      /\ th[p].pc = "done" => th[p].ret = ZeroOf(th[p].drv)

\* A cipher call with n = 0, the IV of zeros and seed 1 has returned.
C4_Witness ==
  /\ 1 \in Returned
  /\ th[1].drv = C64
  /\ th[1].n = Zero32
  /\ mem[th[1].iv] = <<Zero64, Zero64>>
  /\ th[1].seed = One64
  /\ th[1].ret = Zero64

----------------------------------------------------------------------------
\* a >= 1 and (a - 1) mod 4 = 0, for a word a.
HullDobell(a) ==
  /\ a # FromNat(0, Len(a))
  /\ AndW(SubW(a, FromNat(1, Len(a))), FromNat(3, Len(a))) = FromNat(0, Len(a))

\* C5: in every driver and for every n, the coefficient lcg_a of every block
\* (the block in progress at the inner loop, and the block folded) is at
\* least 1 and (lcg_a - 1) mod 4 = 0; so is the coefficient last_lcg_a the
\* driver has computed for the short last block.
C5_Coefficient ==
  \A p \in DOMAIN th :
    th[p].pc \in {"loop", "inner", "done"} =>
      /\ HullDobell(th[p].l.lcg_a)
      /\ HullDobell(th[p].l.last_lcg_a)

\* The 64-bit driver is in a short block of 3 elements, with the
\* coefficient 2^35/12 lowered to 0xAAAAAAA9.
C5_Witness ==
  /\ th[1].pc = "inner"
  /\ th[1].drv = H64
  /\ th[1].l.len = 3
  /\ th[1].l.lcg_a = U64(\H00, \H00, \H00, \H00, \HAA, \HAA, \HAA, \HA9)

----------------------------------------------------------------------------
\* ceil(n / block_len) and n mod block_len for a uint32_t n, by division.
CeilBlocks(n, block_len) ==
  ToNat(DivW(AddW(ZExt(n, 5), FromNat(block_len - 1, 5)), FromNat(block_len, 5)))

RemBlock(n, block_len) ==
  ToNat(SubW(n, MulW(DivW(n, FromNat(block_len, 4)), FromNat(block_len, 4))))

\* The coefficient the driver computes for a short last block of len elements.
Recomputed(drv, len) == IF drv = H32 THEN LastLcgA32(len) ELSE LastLcgA64(len)

OneOf(drv) == IF drv = H32 THEN One32 ELSE One64

\* The iterations counted and the block selected at each position of a call.
BlocksAsCounted ==
  \A p \in DOMAIN th :
    LET t == th[p]
        block_len == BlockLen(t.drv)
        blocks == CeilBlocks(t.n, block_len)
        rem == RemBlock(t.n, block_len)
    IN /\ t.pc = "loop" => t.l.j = t.iters /\ t.iters <= blocks
       /\ t.pc = "inner" =>
            /\ t.l.j = t.iters - 1
            /\ t.iters <= blocks
            /\ t.l.k = MulW(FromNat(t.l.j, 4), FromNat(block_len, 4))
            /\ IF t.iters = blocks /\ rem # 0
               THEN /\ t.l.len = rem
                    /\ t.l.lcg_a = Recomputed(t.drv, rem)
               ELSE /\ t.l.len = block_len
                    /\ t.l.lcg_a = OneOf(t.drv)
       /\ t.pc = "done" => t.l.j = blocks /\ t.iters = blocks

\* The steps a call has left when each inner loop is taken in one step:
\* three for each block iteration not begun, and those of the block begun.
StepsLeft(t) ==
  LET blocks == CeilBlocks(t.n, BlockLen(t.drv))
  IN CASE t.pc = "entry" -> 3 * blocks + 2
       [] t.pc = "loop" -> 3 * (blocks - t.iters) + 1
       [] t.pc = "inner" ->
            3 * (blocks - t.iters) + 2 + (IF InnerTest(t.l) THEN 1 ELSE 0)
       [] OTHER -> 0

\* C6: the block loop terminates after exactly ceil(n / block_len)
\* iterations (every step of the call lowers the steps left, and the call
\* returns with that many iterations made), with j = 0, 1, ... in ascending
\* order; every block but the last has block_len elements and coefficient
\* 1; the last block has n mod block_len elements and the recomputed
\* coefficient when that remainder is not 0, and otherwise block_len
\* elements and coefficient 1.
C6_Blocks ==
  /\ []BlocksAsCounted
  /\ [][\A p \in DOMAIN th :
          <<th'[p].pc, th'[p].reads>> # <<th[p].pc, th[p].reads>> =>
            StepsLeft(th'[p]) >= 0 /\ StepsLeft(th'[p]) < StepsLeft(th[p])]_vars

\* The call with n = 2^32 - 1 has returned after 2^15 iterations.
C6_Witness ==
  /\ 1 \in Returned
  /\ th[1].n = U32(\HFF, \HFF, \HFF, \HFF)
  /\ th[1].iters = 32768

----------------------------------------------------------------------------
\* Whether two arrays hold the same first cnt bytes.
AgreeOn(a1, a2, cnt) ==
  /\ a1.known /\ a2.known
  /\ cnt <= a1.size /\ cnt <= a2.size
  /\ \A a \in 0..(cnt - 1) : ByteOfArray(a1, a) = ByteOfArray(a2, a)

\* C7: a call reads msg at the indices 0, 1, ... in order, each once, never
\* at n or beyond, and i+k never exceeds 2^32 - 1; when it returns it has
\* read exactly 0..n-1; and its result is the result of a remembered call
\* of the same driver with the same n (IV and seed) on a message with the
\* same first n elements, whatever either message holds from index n on.
C7_Reads ==
  \A p \in DOMAIN th :
    LET t == th[p]
    IN t.pc \in {"loop", "inner", "done"} =>
         /\ ~t.wrapped
         /\ \/ t.reads = <<>>
            \/ /\ Len(t.reads) = 1
               /\ t.reads[1][1] = FromNat(0, 5)
               /\ GeW(ZExt(t.n, 5), t.reads[1][2])
         /\ t.pc = "done" =>
              /\ IF t.n = Zero32 THEN t.reads = <<>>
                 ELSE t.reads = << <<FromNat(0, 5), ZExt(t.n, 5)>> >>
              /\ (/\ kept # <<>>
                  /\ mem[t.msg].known
                  /\ kept[1].drv = t.drv
                  /\ kept[1].n = t.n
                  /\ kept[1].seed = t.seed
                  /\ kept[1].ivv = IvOf(mem, t)
                  /\ AgreeOn(kept[1].arr, mem[t.msg],
                             ToNat(t.n) * ElemSize(t.drv))) => t.ret = kept[1].ret

\* The 1 MiB buffer has been hashed with n = 512, and before that with
\* another last byte.
C7_Witness ==
  /\ 1 \in Returned
  /\ th[1].msg = "big"
  /\ th[1].n = FromNat(512, 4)
  /\ kept # <<>>
  /\ kept[1].msg = "big"
  /\ kept[1].n = th[1].n
  /\ AgreeOn(kept[1].arr, mem.big, 1024)
  /\ ByteOfArray(kept[1].arr, BigSize - 1) # ByteOfArray(mem.big, BigSize - 1)
  /\ th[1].ret = kept[1].ret

----------------------------------------------------------------------------
\* Whether thread p's call has the arguments of the remembered call.
SameCall(p) ==
  /\ kept # <<>>
  /\ kept[1].drv = th[p].drv
  /\ kept[1].msg = th[p].msg
  /\ kept[1].n = th[p].n
  /\ kept[1].iv = th[p].iv
  /\ kept[1].seed = th[p].seed

\* C8: a call returns what an earlier call with the same arguments (msg, n,
\* and iv, seed for the cipher driver) returned, whatever calls were made
\* in between.
C8_Deterministic ==
  \A p \in Returned : SameCall(p) => th[p].ret = kept[1].ret

\* The cipher driver has returned a second time for the same arguments.
C8_Witness ==
  /\ 1 \in Returned
  /\ SameCall(1)
  /\ th[1].drv = C64
  /\ th[1].n = FromNat(4, 4)
  /\ th[1].l.gen_calls = FromNat(2, 8)

----------------------------------------------------------------------------
\* C9: with the steps of two calls interleaved, on the same message and the
\* same IV array, the message and the IV array stay as they were, and each
\* call returns what it returns when run alone.
C9_Concurrent ==
  /\ mem = [un1 |-> Array(S1), iv |-> MainIv]
  /\ \A p \in Returned :
       th[p].ret = RunAlone(th[p].drv, mem[th[p].msg], th[p].n,
                            IvOf(mem, th[p]), th[p].seed)

\* A cipher call has returned that began while the other thread's cipher
\* call, still in its inner loop, had already called the generator.
C9_Witness ==
  /\ th[1].pc = "done"
  /\ th[1].drv = C64
  /\ th[1].n = FromNat(4, 4)
  /\ th[2].pc = "inner"
  /\ th[2].drv = C64
  /\ th[2].l.gen_calls = FromNat(1, 8)

----------------------------------------------------------------------------
\* C10: when msg is the message of a remembered call of the 64-bit driver
\* with two elements that differ exchanged, the 64-bit driver's result for
\* it (same n, one block) is not the remembered result.
C10_Exchange ==
  \A p \in Returned :
    (/\ kept # <<>>
     /\ th[p].drv = H64
     /\ kept[1].drv = H64
     /\ kept[1].n = th[p].n
     /\ mem.msg # kept[1].arr
     /\ \E x, y \in 0..(ToNat(th[p].n) - 1) :
          mem.msg = Exchanged(kept[1].arr, x, y)) => th[p].ret # kept[1].ret

\* The 64-bit driver has returned for a message of three elements whose
\* first and last elements, 0xFFFFFFFF and 0x80000000, have been exchanged
\* since the remembered call.
C10_Witness ==
  /\ 1 \in Returned
  /\ kept # <<>>
  /\ th[1].n = FromNat(3, 4)
  /\ kept[1].n = th[1].n
  /\ mem.msg # kept[1].arr
  /\ mem.msg = Exchanged(kept[1].arr, 0, 2)
  /\ LoadElem(mem.msg, 4, FromNat(0, 4)) = {U32(\H80, \H00, \H00, \H00)}
  /\ LoadElem(mem.msg, 4, FromNat(2, 4)) = {U32(\HFF, \HFF, \HFF, \HFF)}

----------------------------------------------------------------------------
\* shift of the driver.
ShiftOf(drv) == IF drv = H32 THEN shift32 ELSE shift64

\* L * (L+1) as the driver computes it, in its type.
ProductInType(drv, L) ==
  IF drv = H32 THEN MulW(FromNat(L, 4), AddW(FromNat(L, 4), One32))
  ELSE MulW(ZExt(FromNat(L, 4), 8), ZExt(AddW(FromNat(L, 4), One32), 8))

\* Whether a is the largest integer with a = 1 (mod 4) and
\* a * L * (L+1) <= 2^shift, and L * (L+1) is computed without overflow;
\* the products are taken in 80 bits, where they are exact (a < 2^40).
LargestCoefficient(drv, L, a) ==
  LET P == MulW(FromNat(L, 10), FromNat(L + 1, 10))
      top == OneBit(10, ShiftOf(drv))
      aw == ZExt(a, 10)
  IN /\ ZExt(ProductInType(drv, L), 10) = P
     /\ GeW(top, P)
     /\ GeW(OneBit(10, 40), aw)
     /\ HullDobell(a)
     /\ GeW(top, MulW(aw, P))
     /\ ~GeW(top, MulW(AddW(aw, FromNat(4, 10)), P))

\* C11: the coefficient the selector has computed for a short last block
\* of L elements (1 <= L < block_len) is the largest a = 1 (mod 4) with
\* a * L * (L+1) <= 2^shift; L * (L+1) does not overflow its type and the
\* quotient 2^shift / (L * (L+1)) is not 0; for a full-size block
\* (L = block_len), where the driver uses 1 without computing it, 1 is that
\* largest a and the selector's formula yields 1.
C11_Largest ==
  \A p \in DOMAIN th :
    LET t == th[p]
    IN /\ t.pc = "loop" /\ t.iters = 0 /\ t.l.last_block_len # 0 =>
            LargestCoefficient(t.drv, t.l.last_block_len, t.l.last_lcg_a)
       /\ t.pc = "inner" /\ InnerTest(t.l) /\ t.l.len = BlockLen(t.drv) =>
            /\ LargestCoefficient(t.drv, t.l.len, t.l.lcg_a)
            /\ Recomputed(t.drv, t.l.len) = t.l.lcg_a

\* The 32-bit driver has computed, for a short last block of 16 elements,
\* the coefficient 2^19/272 = 1927 lowered to 1925.
C11_Witness ==
  /\ th[1].pc = "loop"
  /\ th[1].iters = 0
  /\ th[1].drv = H32
  /\ th[1].l.last_block_len = 16
  /\ th[1].l.last_lcg_a = FromNat(1925, 4)

----------------------------------------------------------------------------
\* Thread p's step is the end of a block of the 32-bit driver (lcg, fold,
\* mix) on a message whose contents are followed.
FoldStep(p, drv) ==
  /\ th[p].drv = drv
  /\ th[p].pc = "inner"
  /\ th'[p].pc = "loop"
  /\ mem[th[p].msg].known

\* The code that enters the mix at the end of the block in progress.
Entering32(l) == Fold32(l.hash_code, Lcg32(l.adler_sum, l.lcg_a), l.j)

\* x, of 16 bits, rotated left by r bits (0 <= r <= 15).
RotL16(x, r) == ((x * (2 ^ r)) % 65536) + (x \div (2 ^ (16 - r)))

\* The 32-bit value with the halves low and high.
Halves(low, high) == FromNat(low % 256, 1) \o FromNat(low \div 256, 1)
                       \o FromNat(high % 256, 1) \o FromNat(high \div 256, 1)

\* The mix of code: XOR with code >> 1, split into halves, the high half
\* rotated left by (low + dh) & 0xF and the low half by (high + dl) & 0xF,
\* both amounts from the halves before either rotation, and reassembled as
\* low | (high << 16).
MixBy(code, dh, dl) ==
  LET g == XorW(code, ShrW(code, 1))
      low == g[1] + 256 * g[2]
      high == g[3] + 256 * g[4]
  IN Halves(RotL16(low, (high + dl) % 16), RotL16(high, (low + dh) % 16))

\* (uint16_t)j and (uint16_t)~j
J16(j) == j % 65536

NotJ16(j) == 65535 - (j % 65536)

\* C12 as stated: the high half is rotated by (low_half + j) & 0xF and the
\* low half by (high_half + ~j) & 0xF.
C12_AsStated ==
  [][\A p \in DOMAIN th :
       FoldStep(p, H32) =>
         th'[p].l.hash_code =
           MixBy(Entering32(th[p].l), J16(th[p].l.j), NotJ16(th[p].l.j))]_vars

\* C12, amended: in the 32-bit driver's mix of block j, the code XORed with
\* itself shifted right by 1 is split into halves; the high half is rotated
\* left by (low_half + ~j) & 0xF bits and the low half by
\* (high_half + j) & 0xF bits, both amounts from the halves before either
\* rotation; the code is reassembled as low_half | (high_half << 16).
C12_Mix ==
  [][\A p \in DOMAIN th :
       FoldStep(p, H32) =>
         th'[p].l.hash_code =
           MixBy(Entering32(th[p].l), NotJ16(th[p].l.j), J16(th[p].l.j))]_vars

\* The 32-bit driver has mixed the second block (j = 1) of the 1 MiB buffer.
C12_Witness ==
  /\ 1 \in Returned
  /\ th[1].drv = H32
  /\ th[1].msg = "big"
  /\ th[1].l.j = 2

----------------------------------------------------------------------------
\* The element of esz bytes at index g of a message whose contents are
\* followed (g within the array).
ElemAt(arr, esz, g) == CHOOSE e \in LoadElem(arr, esz, FromNat(g, 4)) : TRUE

\* The sum over i in lo..hi-1 of (i+1) * msg[base + i], modulo 2^(8*w).
RECURSIVE WeightedSum(_, _, _, _, _, _)
WeightedSum(arr, esz, w, base, lo, hi) ==
  IF hi <= lo THEN FromNat(0, w)
  ELSE IF hi = lo + 1
       THEN MulW(FromNat(lo + 1, w), ZExt(ElemAt(arr, esz, base + lo), w))
       ELSE LET mid == (lo + hi) \div 2
            IN AddW(WeightedSum(arr, esz, w, base, lo, mid),
                    WeightedSum(arr, esz, w, base, mid, hi))

\* Thread p is at the end of the inner loop of a block of drv, on a message
\* whose contents are followed.
BlockSummed(p, drv) ==
  /\ th[p].drv = drv
  /\ th[p].pc = "inner"
  /\ ~InnerTest(th[p].l)
  /\ mem[th[p].msg].known

\* code XOR lcg for even j and code XOR ~lcg for odd j, with
\* lcg = (1013904223 + a * sum) mod 2^32.
Folded32(code, a, sum, j) ==
  LET lcg == AddW(FromNat(1013904223, 4), MulW(a, sum))
  IN IF j % 2 = 0 THEN XorW(code, lcg) ELSE XorW(code, NotW(lcg))

\* sum_j of the 32-bit driver for the block that thread p has summed.
Sum32(p) ==
  WeightedSum(mem[th[p].msg], 2, 4, 512 * th[p].l.j, 0, th[p].l.len)

\* C13: in the 32-bit driver, at the end of the inner loop of block j the
\* sum is (sum over i < len_j of (i+1) * msg[512*j + i]) mod 2^32, the value
\* about to enter the mix is code XOR lcg for even j and code XOR ~lcg for
\* odd j with lcg = (1013904223 + a_j * sum_j) mod 2^32 (also when a_j = 1
\* and the product is not computed), and the block's end leaves the mix of
\* that value in the running code.
C13_Fold ==
  /\ [](\A p \in DOMAIN th :
          BlockSummed(p, H32) =>
            /\ th[p].l.adler_sum = Sum32(p)
            /\ Entering32(th[p].l) =
                 Folded32(th[p].l.hash_code, th[p].l.lcg_a, Sum32(p), th[p].l.j))
  /\ [][\A p \in DOMAIN th :
          FoldStep(p, H32) =>
            th'[p].l.hash_code =
              Mix32(Folded32(th[p].l.hash_code, th[p].l.lcg_a,
                             th[p].l.adler_sum, th[p].l.j), th[p].l.j)]_vars

\* The 32-bit driver has folded the complement of lcg for the odd block
\* j = 1 of the 1 MiB buffer, hashed with n = 1024 after its first byte was
\* changed.
C13_Witness ==
  /\ th[1].pc = "loop"
  /\ th[1].drv = H32
  /\ th[1].msg = "big"
  /\ th[1].n = FromNat(1024, 4)
  /\ th[1].l.j = 2
  /\ ByteOfArray(mem.big, 0) = 0

----------------------------------------------------------------------------
\* mix64((code XOR lcg) + j) with lcg = (1442695040888963407 + a * sum)
\* mod 2^64.
Folded64(code, a, sum, j) ==
  LET lcg == AddW(U64(\H14, \H05, \H7B, \H7E, \HF7, \H67, \H81, \H4F), MulW(a, sum))
  IN SplitMix_next(AddW(XorW(code, lcg), FromNat(j, 8)))

\* C14: in the 64-bit driver the running code starts at 0; at the end of
\* the inner loop of block j the sum is (sum over i < len_j of
\* (i+1) * msg[131072*j + i]) mod 2^64; the block's end makes the code
\* mix64(((code XOR lcg_j) + j) mod 2^64) with
\* lcg_j = (1442695040888963407 + a_j * sum_j) mod 2^64, without a
\* complement for odd j; the code after the last block is returned.
C14_Fold64 ==
  /\ [](\A p \in DOMAIN th :
          /\ th[p].drv = H64 /\ th[p].pc = "loop" /\ th[p].iters = 0 =>
               th[p].l.hash_code = Zero64
          /\ BlockSummed(p, H64) =>
               th[p].l.adler_sum =
                 WeightedSum(mem[th[p].msg], 4, 8, 131072 * th[p].l.j,
                             0, th[p].l.len)
          /\ th[p].drv = H64 /\ th[p].pc = "done" =>
               th[p].ret = th[p].l.hash_code)
  /\ [][\A p \in DOMAIN th :
          FoldStep(p, H64) =>
            th'[p].l.hash_code =
              Folded64(th[p].l.hash_code, th[p].l.lcg_a,
                       th[p].l.adler_sum, th[p].l.j)]_vars

\* The 64-bit driver has returned from the 1 MiB buffer after a full block
\* and a short block of three elements.
C14_Witness ==
  /\ 1 \in Returned
  /\ th[1].drv = H64
  /\ th[1].msg = "big"
  /\ th[1].l.j = 2
  /\ th[1].l.len = 3

----------------------------------------------------------------------------
\* The generator state after m calls from the state s.
RECURSIVE GenAfter(_, _)
GenAfter(s, m) ==
  IF m = 0 THEN s ELSE GenAfter(Xoroshiro128Plus_next(s).s, m - 1)

\* The 32-bit half of the 64-bit value r: the low-order half for h = 0,
\* the high-order half for h = 1.
HalfOf(r, h) == IF h = 0 THEN <<r[1], r[2], r[3], r[4]>> ELSE <<r[5], r[6], r[7], r[8]>>

\* ks[g]: the half g mod 2 of generator output number g div 2, for the
\* generator seeded with (mix64(iv[0] XOR seed), mix64(iv[1])).
Keystream(iv, seed, g) ==
  LET s0 == <<SplitMix_next(XorW(iv[1], seed)), SplitMix_next(iv[2])>>
  IN HalfOf(Xoroshiro128Plus_next(GenAfter(s0, g \div 2)).result, g % 2)

\* The first cnt elements of a message XORed with the keystream.
MaskedMessage(arr, cnt, iv, seed) ==
  Array(Flatten([x \in 1..cnt |->
                   XorW(ElemAt(arr, 4, x - 1), Keystream(iv, seed, x - 1))]))

\* Thread p's step is one iteration of the inner loop.
InnerStep(p) ==
  /\ th[p].pc = "inner"
  /\ th'[p].pc = "inner"
  /\ th'[p].l.i = th[p].l.i + 1

\* C15: the cipher driver seeds the generator once, at entry, with
\* (mix64(iv[0] XOR seed), mix64(iv[1])); the iteration for the element
\* g = 131072*j + i advances it when g is even and not when g is odd, and
\* adds (i+1) * (msg[g] XOR h) where h is the low half of the last output
\* for even g and the high half for odd g; no other step changes the
\* generator state, so it is carried from block to block; the generator
\* has been called ceil(g/2) times before element g and ceil(n/2) times at
\* return; and for a message of one short block the result is that of
\* AYBern_adlerHash64 on the message XORed with the keystream.
C15_Masked ==
  /\ [](\A p \in DOMAIN th :
          th[p].drv = C64 /\ mem[th[p].msg].known =>
            /\ th[p].pc = "inner" =>
                 ToNat(th[p].l.gen_calls) =
                   (131072 * th[p].l.j + th[p].l.i + 1) \div 2
            /\ th[p].pc = "done" =>
                 /\ th[p].l.gen_calls =
                      ShrW(AddW(ZExt(th[p].n, 8), One64), 1)
                 /\ th[p].msg \in TestArrays =>
                      th[p].ret =
                        AYBern_adlerHash64(
                          MaskedMessage(mem[th[p].msg], ToNat(th[p].n),
                                        mem[th[p].iv], th[p].seed),
                          th[p].n))
  /\ [][\A p \in DOMAIN th :
          th[p].drv = C64 /\ th'[p].drv = C64 /\ mem[th[p].msg].known =>
            LET l == th[p].l
                l2 == th'[p].l
            IN IF th[p].pc = "entry"
               THEN th'[p].pc = "loop" =>
                      /\ l2.s = <<SplitMix_next(XorW(mem[th[p].iv][1], th[p].seed)),
                                  SplitMix_next(mem[th[p].iv][2])>>
                      /\ l2.gen_calls = Zero64
               ELSE IF InnerStep(p)
               THEN \E g \in {131072 * l.j + l.i} :
                    \E out \in {Xoroshiro128Plus_next(l.s)} :
                      /\ IF g % 2 = 0
                         THEN /\ l2.s = out.s
                              /\ l2.un = out.result
                              /\ l2.gen_calls = AddW(l.gen_calls, One64)
                         ELSE /\ l2.s = l.s
                              /\ l2.un = l.un
                              /\ l2.gen_calls = l.gen_calls
                      /\ \E e \in {ElemAt(mem[th[p].msg], 4, g)} :
                         \E h \in {HalfOf(l2.un, g % 2)} :
                         \E x \in {ZExt(XorW(e, h), 8)} :
                         \E t \in {MulW(FromNat(l.i + 1, 8), x)} :
                           l2.adler_sum = AddW(l.adler_sum, t)
               ELSE /\ l2.s = l.s
                    /\ l2.gen_calls = l.gen_calls]_vars

\* The cipher driver is in the second block of the 1 MiB buffer, at its
\* second element, the generator called 65537 times, its state carried
\* over the block boundary.
C15_Witness ==
  /\ th[1].drv = C64
  /\ th[1].pc = "inner"
  /\ th[1].msg = "big"
  /\ th[1].l.j = 1
  /\ th[1].l.i = 1
  /\ th[1].l.gen_calls = FromNat(65537, 8)

-----------------------------------------------------------------------------
\* The length of block j of a message of cnt elements in blocks of bl.
LenOfBlock(cnt, bl, j) == IF cnt - bl * j >= bl THEN bl ELSE cnt - bl * j

\* block_sum_j of the message arr for the driver drv: the weighted sum of
\* block j modulo 2^32 (32-bit driver) or 2^64 (64-bit driver).
BlockSum(arr, drv, cnt, j) ==
  WeightedSum(arr, ElemSize(drv), IF drv = H32 THEN 4 ELSE 8,
              BlockLen(drv) * j, 0, LenOfBlock(cnt, BlockLen(drv), j))

\* Whether the first cnt elements of a1 and a2 have the same block sums.
SameBlockSums(a1, a2, drv, cnt) ==
  \A j \in 0..((cnt + BlockLen(drv) - 1) \div BlockLen(drv) - 1) :
    BlockSum(a1, drv, cnt, j) = BlockSum(a2, drv, cnt, j)

\* Thread p has returned from a call of the 32-bit or of the 64-bit driver
\* with the length of the remembered call of the same driver, on a message
\* with the block sums of the remembered message.
SumsAsKept(p) ==
  /\ th[p].pc = "done"
  /\ kept # <<>>
  /\ th[p].drv \in {H32, H64}
  /\ kept[1].drv = th[p].drv
  /\ kept[1].n = th[p].n
  /\ SameBlockSums(kept[1].arr, mem[th[p].msg], th[p].drv, ToNat(th[p].n))

\* C16: a call of the 32-bit or of the 64-bit driver returns what an
\* earlier call of the same driver with the same n returned on a message
\* whose weighted block sums were, block by block, those of this message
\* (modulo 2^32 or 2^64), whatever the elements of the two messages.
C16_Sums == \A p \in DOMAIN th : SumsAsKept(p) => th[p].ret = kept[1].ret

\* The 32-bit driver has returned from a call over two blocks on a message
\* that differs from the remembered one, whose first block had the sum 2
\* where this one has the sum 2^32 + 2.
C16_Witness ==
  /\ SumsAsKept(1)
  /\ th[1].drv = H32
  /\ th[1].n = FromNat(block_len32 + 1, 4)
  /\ ByteOfArray(kept[1].arr, 0) = 2
  /\ ByteOfArray(mem.txt, 1022) = 255

\* The 64-bit driver has returned from a call on a message that differs
\* from the remembered one and has its block sum.
C16_Witness64 ==
  /\ SumsAsKept(1)
  /\ th[1].drv = H64
  /\ kept[1].arr # mem.txt

-----------------------------------------------------------------------------
\* Thread p has returned from a call of the cipher driver on the message
\* and with the n of the remembered call of the cipher driver, with an IV
\* and a seed of the same iv[0] XOR seed and the same iv[1].
SameKeyAsKept(p) ==
  /\ th[p].pc = "done"
  /\ kept # <<>>
  /\ th[p].drv = C64
  /\ kept[1].drv = C64
  /\ kept[1].msg = th[p].msg
  /\ kept[1].arr = mem[th[p].msg]
  /\ kept[1].n = th[p].n
  /\ XorW(kept[1].ivv[1], kept[1].seed) = XorW(mem[th[p].iv][1], th[p].seed)
  /\ kept[1].ivv[2] = mem[th[p].iv][2]

\* C17: the cipher driver starts its block loop with the generator state
\* (mix64(iv[0] XOR seed), mix64(iv[1])), and it returns what an earlier
\* call on the same message with the same n returned whose IV and seed had
\* the same iv[0] XOR seed and the same iv[1].
C17_Key ==
  \A p \in DOMAIN th :
    /\ th[p].drv = C64 /\ th[p].pc = "loop" /\ th[p].l.gen_calls = Zero64 =>
         /\ th[p].l.s[1] = SplitMix_next(XorW(mem[th[p].iv][1], th[p].seed))
         /\ th[p].l.s[2] = SplitMix_next(mem[th[p].iv][2])
    /\ SameKeyAsKept(p) => th[p].ret = kept[1].ret

\* The cipher driver has returned from a call on all of a test message with
\* main's IV and the seed 1, and the remembered call had the seed 0 and the
\* IV with the lowest bit of iv[0] changed.
C17_Witness ==
  /\ SameKeyAsKept(1)
  /\ th[1].n = FromNat(4, 4)
  /\ th[1].iv = "iv"
  /\ th[1].seed = One64
  /\ kept[1].iv = "iv1"
  /\ kept[1].seed = Zero64

-----------------------------------------------------------------------------
\* Thread p is in the cipher driver, about to test its block loop for the
\* first time: the generator has just been seeded.
Seeded(p) ==
  /\ th[p].drv = C64
  /\ th[p].pc = "loop"
  /\ th[p].l.gen_calls = Zero64

\* C18: whatever the IV and the seed, the generator state the cipher driver
\* seeds is not the all-zero state.
C18_NeverZero ==
  \A p \in DOMAIN th : Seeded(p) => th[p].l.s # <<Zero64, Zero64>>

\* The cipher driver has returned from a call on all of a test message with
\* the IV (0x61C8864680B583EB, 0x61C8864680B583EB) and the seed 0: the
\* generator state is all zero after two calls of the generator, and the
\* result is that of AYBern_adlerHash64 on the message.
C18_Witness ==
  /\ th[1].drv = C64
  /\ th[1].pc = "done"
  /\ th[1].iv = "ivw"
  /\ th[1].seed = Zero64
  /\ th[1].n = FromNat(4, 4)
  /\ th[1].l.gen_calls = FromNat(2, 8)
  /\ th[1].l.s = <<Zero64, Zero64>>
  /\ th[1].ret = AYBern_adlerHash64(mem.un1, th[1].n)

-----------------------------------------------------------------------------
\* The code that enters the mix of block 0 in a call of the 32-bit driver
\* on the first 512 elements of arr: 0 XOR (1013904223 + sum_0).
EnteringFirst(arr) ==
  Folded32(Zero32, One32, BlockSum(arr, H32, block_len32, 0), 0)

\* Thread p has returned from a call of the 32-bit driver over one full
\* block, as the remembered call was, and the codes that entered the mix
\* of block 0 in the two calls differ.
EnteredApart(p) ==
  /\ th[p].pc = "done"
  /\ kept # <<>>
  /\ th[p].drv = H32
  /\ kept[1].drv = H32
  /\ th[p].n = FromNat(block_len32, 4)
  /\ kept[1].n = th[p].n
  /\ EnteringFirst(kept[1].arr) # EnteringFirst(mem[th[p].msg])

====
